---- MODULE Spec2Model ----
(***************************************************************************)
(* The autonomy "computation" job lifecycle of juggernaut-idv-demo:        *)
(* AutonomyController (src/unnamed/part_001, lines 315-518), its           *)
(* in-memory Maps, the one-shot setTimeout completion callback, and the    *)
(* Joi schema the recompute route applies (src/unnamed/part_007).          *)
(*                                                                         *)
(* Every handler of AutonomyController runs to completion without an       *)
(* await, so each handler is one atomic step; the setTimeout callback is   *)
(* another atomic step that the event loop runs at any moment from its due *)
(* time on.  The handlers are modelled as methods invoked on the           *)
(* controller instance (`this` is the AutonomyController); the routes of   *)
(* src/unnamed/part_005 hand the methods to Express detached from the      *)
(* instance, which this model does not follow.                             *)
(*                                                                         *)
(* Optional JavaScript values are sequences: <<>> is undefined, <<v>> is   *)
(* the value v.                                                            *)
(*                                                                         *)
(* Besides the job lifecycle the module holds the access path in front of  *)
(* it: AuthController (src/unnamed/part_001, lines 9-310), the middleware  *)
(* of src/backend/src/middleware/auth.ts and the guarded autonomy routes   *)
(* (specification AuthSpec), and the key store of PublicKeyController      *)
(* (src/unnamed/part_003, specification KeySpec).  Each controller draws   *)
(* its uuidv4() values from a counter of its own: ids of different         *)
(* controllers are never compared.                                         *)
(***************************************************************************)
EXTENDS Integers, Sequences, FiniteSets, TLC

VARIABLES
    computations,   \* this.computations: Map, as the sequence of its values in insertion order
    schedules,      \* this.schedules: Map, as the sequence of its values in insertion order
    timers,         \* the armed setTimeout callbacks: [id, parameters, due]
    uuids,          \* how many uuidv4() values have been drawn
    now,            \* the clock behind new Date(), in ms
    submitted,      \* history: <<id, datasetId>> of every 202 answer of triggerRecomputation
    res,            \* the HTTP response written by the last step, if it was a request
    users,          \* AuthController.users: Map keyed by email, values in insertion order
    apiKeys,        \* AuthController.apiKeys: Map keyed by key, values in insertion order
    refreshTokens,  \* AuthController.refreshTokens: Set of refresh-token payloads
    registering,    \* register calls suspended in `await bcrypt.hash`, past the existence check
    signed,         \* the access-token payloads signed with config.jwt.secret
    registered,     \* history: [email, id] of every 201 answer of register
    returnedKeys,   \* history: every key a 201 answer of generateApiKey returned
    authUuids,      \* how many uuidv4() values AuthController has drawn
    keys,           \* PublicKeyController.keys: Map, values in insertion order
    currentKeyId,   \* PublicKeyController.currentKeyId
    keyUuids,       \* how many uuidv4() values PublicKeyController has drawn
    rotations       \* history: how many rotateKeys calls have answered 200

\* the state of AuthController and of the tokens it has issued
authState == <<users, apiKeys, refreshTokens, registering, signed, registered,
               returnedKeys, authUuids>>

\* the state of PublicKeyController
keyState == <<keys, currentKeyId, keyUuids, rotations>>

vars == <<computations, schedules, timers, uuids, now, submitted, res,
          authState, keyState>>

----------------------------------------------------------------------------
(* Bounds of the model *)

MaxJobs == 2
MaxSchedules == 1
MaxTicks == 1
MaxRegistrations == 2
MaxApiKeys == 1
MaxRotations == 3

(* Program constants *)

ComputeDelayMs == 5000
NextRunOffsetMs == 3600000
DefaultIterations == 100
CompletedProgress == 100
DefaultPage == 1
DefaultLimit == 20
AverageComputationTimeMs == 5234
SuccessRatePercent == 92
Unauthorized == 401
Forbidden == 403
Conflict == 409
TooManyRequests == 429
RsaKeySize == 2048

TickMs == ComputeDelayMs
HorizonMs == MaxTicks * TickMs

Undefined == <<>>
Some(v) == <<v>>
IsDefined(x) == x # <<>>

Statuses == {"pending", "running", "completed", "failed", "cancelled"}
TerminalStatuses == {"completed", "failed", "cancelled"}

----------------------------------------------------------------------------
(* Request inputs *)

DatasetIdInputs == {Undefined, Some("d1"), Some("d2")}
ParametersInputs == {Undefined, Some([iterations |-> Some(0)]),
                     Some([iterations |-> Some(250)])}
RecomputeBodies == [datasetId : DatasetIdInputs, parameters : ParametersInputs]
ScheduleBodies == [datasetId : {Some("d1")}, schedule : {Some("0 * * * *")},
                   parameters : {Undefined}]
AccuracyPercents == {80, 99}
\* req.query of the history route, after Number(): the route applies no schema
HistoryQuery(status, page, limit) == [status |-> status, page |-> page, limit |-> limit]
HistoryQueries ==
    {HistoryQuery(Undefined, Undefined, Undefined),
     HistoryQuery(Undefined, Undefined, Some(1)),
     HistoryQuery(Undefined, Some(2), Some(1)),
     HistoryQuery(Undefined, Undefined, Some(-1)),
     HistoryQuery(Some("completed"), Undefined, Some(1)),
     HistoryQuery(Some("completed"), Some(2), Some(1)),
     HistoryQuery(Some("cancelled"), Undefined, Undefined)}
RequestIds == 1..(MaxJobs + MaxSchedules)

----------------------------------------------------------------------------
(* Joi schemas of the routes *)

\* mutant: iterations: Joi.number().integer().min(0)
IterationsValid_Min0(iterations) ==
    IF IsDefined(iterations) THEN iterations[1] >= 0 ELSE TRUE

IterationsValid(iterations) ==
    IF IsDefined(iterations) THEN iterations[1] >= 1 ELSE TRUE

ParametersValid(parameters) ==
    IF IsDefined(parameters) THEN IterationsValid(parameters[1].iterations) ELSE TRUE

\* validateRequest(schema) of middleware/validation: the handler runs only
\* for a body the schema accepts
ValidateRequest(accepted) == accepted

RecomputeSchemaValid(body) ==
    /\ IsDefined(body.datasetId)
    /\ ParametersValid(body.parameters)

ScheduleSchemaValid(body) ==
    /\ IsDefined(body.datasetId)
    /\ IsDefined(body.schedule)
    /\ ParametersValid(body.parameters)

----------------------------------------------------------------------------
(* Map<string, any> *)

MapIndex(m, key) == {i \in DOMAIN m : m[i].id = key}

MapGet(m, key) ==
    IF MapIndex(m, key) = {} THEN Undefined
    ELSE Some(m[CHOOSE i \in MapIndex(m, key) : TRUE])

MapSet(m, key, value) ==
    IF MapIndex(m, key) = {} THEN Append(m, value)
    ELSE [i \in DOMAIN m |-> IF m[i].id = key THEN value ELSE m[i]]

MapKeys(m) == {m[i].id : i \in DOMAIN m}

\* Array.prototype.filter(c => c.status === status)
FilterByStatus(list, status) ==
    LET Matches(c) == c.status = status IN SelectSeq(list, Matches)

\* Array.prototype.slice(0, end)
SliceFromStart(list, end) ==
    LET stop == IF end < 0 THEN (IF Len(list) + end < 0 THEN 0 ELSE Len(list) + end)
                ELSE (IF end > Len(list) THEN Len(list) ELSE end)
    IN SubSeq(list, 1, stop)

\* const { page = 1, limit = 20 } = req.query; Number(x)
QueryNumber(value, default) == IF IsDefined(value) THEN value[1] ELSE default

\* computations.filter(c => c.status === s).length
CountByStatus(list, status) == Len(FilterByStatus(list, status))

----------------------------------------------------------------------------
(* The objects the handlers build *)

\* mutant: the id is taken from the wrong counter
UuidV4_WrongCounter == Len(schedules) + 1

\* uuidv4(): a value never drawn before
UuidV4 == uuids + 1

\* mutant: the job is created as pending
NewComputation_Pending(id, body, t) ==
    [id |-> id, datasetId |-> body.datasetId[1], status |-> "pending",
     startedAt |-> t, parameters |-> body.parameters, options |-> Undefined,
     progress |-> 0, completedAt |-> Undefined, cancelledAt |-> Undefined,
     results |-> Undefined]

NewComputation(id, body, t) ==
    [id |-> id, datasetId |-> body.datasetId[1], status |-> "running",
     startedAt |-> t, parameters |-> body.parameters, options |-> Undefined,
     progress |-> 0, completedAt |-> Undefined, cancelledAt |-> Undefined,
     results |-> Undefined]

\* parameters?.iterations || 100
IterationsOrDefault(parameters) ==
    IF IsDefined(parameters) /\ IsDefined(parameters[1].iterations)
       /\ parameters[1].iterations[1] # 0
    THEN parameters[1].iterations[1]
    ELSE DefaultIterations

\* mutant: the callback restarts the job's clock
CompletedComputation_Restart(comp, parameters, accuracy, t) ==
    [comp EXCEPT !.status = "completed", !.progress = CompletedProgress,
                 !.startedAt = t, !.completedAt = Some(t),
                 !.results = Some([accuracy |-> accuracy,
                                   iterations |-> IterationsOrDefault(parameters),
                                   convergence |-> TRUE])]

\* mutant: the callback attaches no results
CompletedComputation_NoResults(comp, parameters, accuracy, t) ==
    [comp EXCEPT !.status = "completed", !.progress = CompletedProgress,
                 !.completedAt = Some(t)]

\* mutant: the callback forgets the caller's iterations
CompletedComputation_DefaultIterations(comp, parameters, accuracy, t) ==
    [comp EXCEPT !.status = "completed", !.progress = CompletedProgress,
                 !.completedAt = Some(t),
                 !.results = Some([accuracy |-> accuracy,
                                   iterations |-> DefaultIterations,
                                   convergence |-> TRUE])]

CompletedComputation(comp, parameters, accuracy, t) ==
    [comp EXCEPT !.status = "completed", !.progress = CompletedProgress,
                 !.completedAt = Some(t),
                 !.results = Some([accuracy |-> accuracy,
                                   iterations |-> IterationsOrDefault(parameters),
                                   convergence |-> TRUE])]

\* mutant: cancellation resets progress
CancelledComputation_ResetProgress(comp, t) ==
    [comp EXCEPT !.status = "cancelled", !.cancelledAt = Some(t), !.progress = 0]

\* mutant: cancellation does not stamp cancelledAt
CancelledComputation_NoStamp(comp, t) ==
    [comp EXCEPT !.status = "cancelled"]

CancelledComputation(comp, t) ==
    [comp EXCEPT !.status = "cancelled", !.cancelledAt = Some(t)]

\* mutant: setTimeout is called twice for one job
ArmTimer_Twice(ts, id, parameters, t) ==
    ts \cup {[id |-> id, parameters |-> parameters, due |-> t + ComputeDelayMs],
             [id |-> id, parameters |-> parameters, due |-> t]}

\* mutant: setTimeout is never called
ArmTimer_Never(ts, id, parameters, t) == ts

ArmTimer(ts, id, parameters, t) ==
    ts \cup {[id |-> id, parameters |-> parameters, due |-> t + ComputeDelayMs]}

----------------------------------------------------------------------------
(* Responses *)

NoResponse == [op |-> "none"]

NotFoundResponse(op, id) ==
    [op |-> op, id |-> id, code |-> 404,
     body |-> [success |-> FALSE, error |-> "Computation not found"]]

RecomputeResponse(comp) ==
    [op |-> "recompute", code |-> 202,
     body |-> [success |-> TRUE, message |-> "Computation initiated",
               computation |-> [id |-> comp.id, status |-> comp.status]]]

StatusResponse(id, computation) ==
    IF ~IsDefined(computation) THEN NotFoundResponse("status", id)
    ELSE [op |-> "status", id |-> id, code |-> 200,
          body |-> [success |-> TRUE, status |-> computation[1].status,
                    progress |-> computation[1].progress,
                    startedAt |-> computation[1].startedAt,
                    completedAt |-> computation[1].completedAt]]

\* mutant: metadata.completedAt is read from startedAt
ResultsResponse_StartedAt(id, computation) ==
    IF ~IsDefined(computation) THEN NotFoundResponse("results", id)
    ELSE IF computation[1].status # "completed"
    THEN [op |-> "results", id |-> id, code |-> 202,
          body |-> [success |-> FALSE, message |-> "Computation still in progress",
                    status |-> computation[1].status,
                    progress |-> computation[1].progress]]
    ELSE [op |-> "results", id |-> id, code |-> 200,
          body |-> [success |-> TRUE, results |-> computation[1].results,
                    metadata |-> [computationId |-> computation[1].id,
                                  datasetId |-> computation[1].datasetId,
                                  completedAt |-> Some(computation[1].startedAt)]]]

\* mutant: the in-progress answer leaks the stored results
ResultsResponse_Leak(id, computation) ==
    IF ~IsDefined(computation) THEN NotFoundResponse("results", id)
    ELSE IF computation[1].status # "completed" /\ ~IsDefined(computation[1].results)
    THEN [op |-> "results", id |-> id, code |-> 202,
          body |-> [success |-> FALSE, message |-> "Computation still in progress",
                    status |-> computation[1].status,
                    progress |-> computation[1].progress]]
    ELSE [op |-> "results", id |-> id, code |-> 200,
          body |-> [success |-> TRUE, results |-> computation[1].results,
                    metadata |-> [computationId |-> computation[1].id,
                                  datasetId |-> computation[1].datasetId,
                                  completedAt |-> computation[1].completedAt]]]

ResultsResponse(id, computation) ==
    IF ~IsDefined(computation) THEN NotFoundResponse("results", id)
    ELSE IF computation[1].status # "completed"
    THEN [op |-> "results", id |-> id, code |-> 202,
          body |-> [success |-> FALSE, message |-> "Computation still in progress",
                    status |-> computation[1].status,
                    progress |-> computation[1].progress]]
    ELSE [op |-> "results", id |-> id, code |-> 200,
          body |-> [success |-> TRUE, results |-> computation[1].results,
                    metadata |-> [computationId |-> computation[1].id,
                                  datasetId |-> computation[1].datasetId,
                                  completedAt |-> computation[1].completedAt]]]

CancelResponse(id, comp) ==
    [op |-> "cancel", id |-> id, code |-> 200,
     body |-> [success |-> TRUE, message |-> "Computation cancelled",
               computation |-> [id |-> comp.id, status |-> comp.status]]]

ScheduleResponse(entry) ==
    [op |-> "schedule", code |-> 201, body |-> [success |-> TRUE, schedule |-> entry]]

HistoryResponse(query, list) ==
    LET filtered == IF IsDefined(query.status)
                    THEN FilterByStatus(list, query.status[1]) ELSE list
        limit == QueryNumber(query.limit, DefaultLimit)
    IN [op |-> "history", query |-> query, code |-> 200,
        body |-> [success |-> TRUE,
                  computations |-> SliceFromStart(filtered, limit),
                  pagination |-> [page |-> QueryNumber(query.page, DefaultPage),
                                  limit |-> limit,
                                  total |-> Len(filtered)]]]

\* mutant: total counts the jobs that are still running
Metrics_TotalRunning(list, scheduleList) ==
    [total |-> CountByStatus(list, "running"),
     running |-> CountByStatus(list, "running"),
     completed |-> CountByStatus(list, "completed"),
     failed |-> CountByStatus(list, "failed"),
     cancelled |-> CountByStatus(list, "cancelled"),
     averageComputationTime |-> AverageComputationTimeMs,
     successRate |-> SuccessRatePercent,
     activeSchedules |-> Len(scheduleList)]

Metrics(list, scheduleList) ==
    [total |-> Len(list),
     running |-> CountByStatus(list, "running"),
     completed |-> CountByStatus(list, "completed"),
     failed |-> CountByStatus(list, "failed"),
     cancelled |-> CountByStatus(list, "cancelled"),
     averageComputationTime |-> AverageComputationTimeMs,
     successRate |-> SuccessRatePercent,
     activeSchedules |-> Len(scheduleList)]

MetricsResponse(list, scheduleList) ==
    [op |-> "metrics", code |-> 200,
     body |-> [success |-> TRUE, metrics |-> Metrics(list, scheduleList)]]

----------------------------------------------------------------------------
(* AuthController, the tokens it issues and the auth middleware *)

\* bcrypt.hash(password, 10) and bcrypt.compare(password, hash)
BcryptHash(password) == <<"bcrypt", password>>
BcryptCompare(password, hash) == hash = BcryptHash(password)

\* the body of POST /register
RegisterBody(email, password, name) == [email |-> email, password |-> password, name |-> name]
RegisterBodies == {RegisterBody("a@x", "p1", "n1"), RegisterBody("a@x", "p2", "n2"),
                   RegisterBody("b@x", "p1", "n1")}
LoginBodies == {[email |-> "a@x", password |-> "p1"], [email |-> "a@x", password |-> "bad"],
                [email |-> "c@x", password |-> "p1"]}

\* this.users: Map keyed by email
UsersIndex(m, email) == {i \in DOMAIN m : m[i].email = email}
UsersHas(m, email) == UsersIndex(m, email) # {}
UsersGet(m, email) ==
    IF UsersIndex(m, email) = {} THEN Undefined
    ELSE Some(m[CHOOSE i \in UsersIndex(m, email) : TRUE])
UsersSet(m, email, value) ==
    IF UsersIndex(m, email) = {} THEN Append(m, value)
    ELSE [i \in DOMAIN m |-> IF m[i].email = email THEN value ELSE m[i]]

\* this.apiKeys: Map keyed by key
ApiKeysSet(m, value) ==
    IF \E i \in DOMAIN m : m[i].key = value.key
    THEN [i \in DOMAIN m |-> IF m[i].key = value.key THEN value ELSE m[i]]
    ELSE Append(m, value)
ApiKeysDelete(m, key) == LET Others(k) == k.key # key IN SelectSeq(m, Others)

\* uuidv4() in AuthController: a value never drawn before
AuthUuidV4(n) == authUuids + n

\* the user object register stores
NewUser(id, body, t) ==
    [id |-> id, email |-> body.email, password |-> BcryptHash(body.password),
     name |-> body.name, role |-> "user", permissions |-> {"read", "verify"},
     createdAt |-> t]

\* the payloads generateAccessToken and generateRefreshToken sign
AccessTokenPayload(user) ==
    [id |-> user.id, email |-> user.email, role |-> user.role,
     permissions |-> user.permissions]
RefreshTokenPayload(user) == [id |-> user.id]

\* a token that was not signed with config.jwt.secret
ForgedToken == [id |-> 0, email |-> "a@x", role |-> "admin", permissions |-> {"*"}]

\* jwt.verify(token, config.jwt.secret)
JwtVerify(token) == token \in signed

\* API key strings: config.apiKeys.masterKey, config.apiKeys.systemKey, `jug_<uuid>`
MasterKey == [prefix |-> "master", n |-> 0]
SystemKey == [prefix |-> "system", n |-> 0]
JugKey(n) == [prefix |-> "jug_", n |-> n]

\* the apiKey object generateApiKey stores
NewApiKey(id, key, body, userId, t) ==
    [id |-> id, key |-> key, name |-> body.name, userId |-> userId,
     permissions |-> IF IsDefined(body.permissions) THEN body.permissions[1]
                     ELSE {"read", "verify"},
     tier |-> "basic", createdAt |-> t, lastUsed |-> Undefined]
ApiKeyBodies == {[name |-> "ci", permissions |-> Undefined],
                 [name |-> "ci", permissions |-> Some({"compute"})]}

\* request headers: Authorization (the bearer token) and X-API-Key
Headers(authorization, apiKey) == [authorization |-> authorization, apiKey |-> apiKey]
NoHeaders == Headers(Undefined, Undefined)
Bearer(token) == Headers(Some(token), Undefined)
XApiKey(key) == Headers(Undefined, Some(key))
HeaderInputs ==
    {NoHeaders, Bearer(ForgedToken), XApiKey(MasterKey), XApiKey(SystemKey),
     XApiKey(JugKey(0))}
    \cup {Bearer(token) : token \in signed}
    \cup {XApiKey(key) : key \in returnedKeys}
    \cup {Headers(Some(token), Some(SystemKey)) : token \in signed}

\* what the middleware leaves on the request: the status it ends the request
\* with (200: next() without an error), req.user and req.apiKey
Authenticated(user, apiKey) == [code |-> 200, user |-> user, apiKey |-> apiKey]
Rejected(code) == [code |-> code, user |-> Undefined, apiKey |-> Undefined]

authenticateJWT(headers) ==
    IF ~IsDefined(headers.authorization) THEN Rejected(Unauthorized)
    ELSE IF ~JwtVerify(headers.authorization[1]) THEN Rejected(Unauthorized)
    ELSE Authenticated(Some(headers.authorization[1]), Undefined)

authenticateAPIKey(headers) ==
    IF ~IsDefined(headers.apiKey) THEN Rejected(Unauthorized)
    ELSE IF headers.apiKey[1] = MasterKey
         THEN Authenticated(Undefined, Some([key |-> MasterKey, tier |-> "enterprise",
                                             permissions |-> {"*"}]))
    ELSE IF headers.apiKey[1] = SystemKey
         THEN Authenticated(Undefined, Some([key |-> SystemKey, tier |-> "premium",
                                             permissions |-> {"read", "write", "verify"}]))
    ELSE Rejected(Unauthorized)

authenticate(headers) ==
    IF ~IsDefined(headers.authorization) /\ ~IsDefined(headers.apiKey)
    THEN Rejected(Unauthorized)
    ELSE IF IsDefined(headers.apiKey) THEN authenticateAPIKey(headers)
    ELSE authenticateJWT(headers)

\* [...userPermissions, ...apiKeyPermissions]
AllPermissions(req) ==
    (IF IsDefined(req.user) THEN req.user[1].permissions ELSE {})
    \cup (IF IsDefined(req.apiKey) THEN req.apiKey[1].permissions ELSE {})

\* mutant: any authenticated request passes
requirePermission_AnyAuthenticated(req, permissions) ==
    IF req.code # 200 THEN req
    ELSE IF ~IsDefined(req.user) /\ ~IsDefined(req.apiKey) THEN Rejected(Unauthorized)
    ELSE req

\* requirePermission(...permissions), run on what authenticate left
requirePermission(req, permissions) ==
    IF req.code # 200 THEN req
    ELSE IF ~IsDefined(req.user) /\ ~IsDefined(req.apiKey) THEN Rejected(Unauthorized)
    ELSE IF "*" \in AllPermissions(req) THEN req
    ELSE IF permissions \cap AllPermissions(req) = {} THEN Rejected(Forbidden)
    ELSE req

\* the answer of errorHandler (or of a rate limiter) to a request that did not
\* reach its handler, with the headers the request came with
ErrorResponse(op, code, headers) ==
    [op |-> op, code |-> code, headers |-> headers, body |-> [success |-> FALSE]]

RegisterResponse(user) ==
    [op |-> "register", code |-> 201,
     body |-> [success |-> TRUE,
               user |-> [id |-> user.id, email |-> user.email, name |-> user.name,
                         role |-> user.role],
               tokens |-> [accessToken |-> AccessTokenPayload(user),
                           refreshToken |-> RefreshTokenPayload(user)]]]

RegisterConflictResponse(email) ==
    [op |-> "register", code |-> Conflict, email |-> email,
     body |-> [success |-> FALSE, error |-> "User already exists"]]

LoginResponse(body, user) ==
    IF IsDefined(user) /\ BcryptCompare(body.password, user[1].password)
    THEN [op |-> "login", code |-> 200,
          body |-> [success |-> TRUE,
                    tokens |-> [accessToken |-> AccessTokenPayload(user[1]),
                                refreshToken |-> RefreshTokenPayload(user[1])]]]
    ELSE [op |-> "login", code |-> Unauthorized,
          body |-> [success |-> FALSE, error |-> "Invalid credentials"]]

ApiKeyResponse(apiKey) ==
    [op |-> "apiKey", code |-> 201,
     body |-> [success |-> TRUE,
               apiKey |-> [id |-> apiKey.id, key |-> apiKey.key, name |-> apiKey.name,
                           permissions |-> apiKey.permissions]]]

RevokeResponse(keyId, found) ==
    IF found
    THEN [op |-> "revoke", id |-> keyId, code |-> 200,
          body |-> [success |-> TRUE, message |-> "API key revoked successfully"]]
    ELSE [op |-> "revoke", id |-> keyId, code |-> 404,
          body |-> [success |-> FALSE, error |-> "API key not found"]]

----------------------------------------------------------------------------
(* PublicKeyController *)

ReasonInputs == {Undefined, Some("compromised")}
ImmediateInputs == {Undefined, Some(TRUE)}

\* the key object generateAndStoreKeyPair stores
NewKeyPair(keyId, t) ==
    [id |-> keyId, algorithm |-> "RSA", keySize |-> RsaKeySize, createdAt |-> t,
     active |-> TRUE, deactivatedAt |-> Undefined, deactivationReason |-> Undefined]

\* mutant: the previous key stays active
DeactivatedKey_StillActive(key, reason, t) ==
    [key EXCEPT !.deactivatedAt = Some(t), !.deactivationReason = reason]

\* currentKey.active = false; deactivatedAt; deactivationReason
DeactivatedKey(key, reason, t) ==
    [key EXCEPT !.active = FALSE, !.deactivatedAt = Some(t), !.deactivationReason = reason]

RotateResponse(newKeyId, immediate) ==
    [op |-> "rotate", code |-> 200,
     body |-> [success |-> TRUE, message |-> "Keys rotated successfully",
               newKeyId |-> newKeyId, immediate |-> immediate]]

PublicKeyResponse(key) ==
    [op |-> "publicKey", code |-> 200,
     body |-> [success |-> TRUE, keyId |-> key.id, algorithm |-> key.algorithm,
               format |-> "PEM", createdAt |-> key.createdAt]]

AllKeysResponse(list) ==
    [op |-> "allKeys", code |-> 200,
     body |-> [success |-> TRUE,
               keys |-> [i \in DOMAIN list |->
                            [id |-> list[i].id, algorithm |-> list[i].algorithm,
                             keySize |-> list[i].keySize, createdAt |-> list[i].createdAt,
                             active |-> list[i].active]]]]

----------------------------------------------------------------------------
(* State machine *)

Init ==
    /\ computations = <<>>
    /\ schedules = <<>>
    /\ timers = {}
    /\ uuids = 0
    /\ now = 0
    /\ submitted = <<>>
    /\ res = NoResponse
    /\ users = <<>>
    /\ apiKeys = <<>>
    /\ refreshTokens = {}
    /\ registering = {}
    /\ signed = {}
    /\ registered = <<>>
    /\ returnedKeys = {}
    /\ authUuids = 0
    \* the constructor of PublicKeyController has stored the first key pair
    /\ keys = <<NewKeyPair(1, 0)>>
    /\ currentKeyId = 1
    /\ keyUuids = 1
    /\ rotations = 0

\* POST /recompute, after validateRequest(autonomyValidation.recompute)
TriggerRecomputation(body) ==
    /\ ValidateRequest(RecomputeSchemaValid(body))
    /\ Len(computations) < MaxJobs
    /\ now + ComputeDelayMs <= HorizonMs    \* the callback falls due within the horizon
    /\ LET computation == NewComputation(UuidV4, body, now) IN
        /\ uuids' = uuids + 1
        /\ computations' = MapSet(computations, computation.id, computation)
        /\ timers' = ArmTimer(timers, computation.id, body.parameters, now)
        /\ res' = RecomputeResponse(computation)
        /\ submitted' = Append(submitted, <<computation.id, body.datasetId[1]>>)
    /\ UNCHANGED <<schedules, now, authState, keyState>>

\* mutant: the callback completes every stored job
CompletionCallback_Sweep(timer, accuracy) ==
    /\ timer \in timers
    /\ now >= timer.due
    /\ timers' = timers \ {timer}
    /\ computations' =
          [i \in DOMAIN computations |->
              CompletedComputation(computations[i], timer.parameters, accuracy, now)]
    /\ res' = NoResponse
    /\ UNCHANGED <<schedules, uuids, now, submitted, authState, keyState>>

\* the setTimeout callback of triggerRecomputation
CompletionCallback(timer, accuracy) ==
    /\ timer \in timers
    /\ now >= timer.due
    /\ timers' = timers \ {timer}
    /\ LET comp == MapGet(computations, timer.id) IN
        computations' =
            IF IsDefined(comp)
            THEN MapSet(computations, timer.id,
                        CompletedComputation(comp[1], timer.parameters, accuracy, now))
            ELSE computations
    /\ res' = NoResponse
    /\ UNCHANGED <<schedules, uuids, now, submitted, authState, keyState>>

\* mutant: polling a running job advances its progress
GetComputationStatus_Polls(computationId) ==
    LET computation == MapGet(computations, computationId) IN
    /\ res' = StatusResponse(computationId, computation)
    /\ computations' =
          IF IsDefined(computation) /\ computation[1].status = "running"
          THEN MapSet(computations, computationId, [computation[1] EXCEPT !.progress = 50])
          ELSE computations
    /\ UNCHANGED <<schedules, timers, uuids, now, submitted, authState, keyState>>

\* GET /status/:computationId
GetComputationStatus(computationId) ==
    /\ res' = StatusResponse(computationId, MapGet(computations, computationId))
    /\ UNCHANGED <<computations, schedules, timers, uuids, now, submitted, authState, keyState>>

\* GET /results/:computationId
GetComputationResults(computationId) ==
    /\ res' = ResultsResponse(computationId, MapGet(computations, computationId))
    /\ UNCHANGED <<computations, schedules, timers, uuids, now, submitted, authState, keyState>>

\* mutant: cancelling a job deletes its record
CancelComputation_Deletes(computationId) ==
    LET computation == MapGet(computations, computationId)
        Others(c) == c.id # computationId IN
    /\ computations' = SelectSeq(computations, Others)
    /\ res' = IF IsDefined(computation)
              THEN CancelResponse(computationId, CancelledComputation(computation[1], now))
              ELSE NotFoundResponse("cancel", computationId)
    /\ UNCHANGED <<schedules, timers, uuids, now, submitted, authState, keyState>>

\* mutant: cancelling an unknown id stores a cancelled record under it
CancelComputation_Upsert(computationId) ==
    LET computation == MapGet(computations, computationId)
        created == [id |-> computationId, datasetId |-> "d1", status |-> "cancelled",
                    startedAt |-> now, parameters |-> Undefined, options |-> Undefined,
                    progress |-> 0, completedAt |-> Undefined,
                    cancelledAt |-> Some(now), results |-> Undefined]
        cancelled == IF IsDefined(computation)
                     THEN CancelledComputation(computation[1], now) ELSE created
    IN
    /\ computations' = MapSet(computations, computationId, cancelled)
    /\ res' = IF IsDefined(computation) THEN CancelResponse(computationId, cancelled)
              ELSE NotFoundResponse("cancel", computationId)
    /\ UNCHANGED <<schedules, timers, uuids, now, submitted, authState, keyState>>

\* POST /cancel/:computationId
CancelComputation(computationId) ==
    LET computation == MapGet(computations, computationId) IN
    /\ IF ~IsDefined(computation)
       THEN /\ res' = NotFoundResponse("cancel", computationId)
            /\ UNCHANGED computations
       ELSE LET cancelled == CancelledComputation(computation[1], now) IN
            /\ computations' = MapSet(computations, computationId, cancelled)
            /\ res' = CancelResponse(computationId, cancelled)
    /\ UNCHANGED <<schedules, timers, uuids, now, submitted, authState, keyState>>

\* GET /history
GetComputationHistory(query) ==
    /\ res' = HistoryResponse(query, computations)
    /\ UNCHANGED <<computations, schedules, timers, uuids, now, submitted, authState, keyState>>

\* GET /metrics
GetMetrics ==
    /\ res' = MetricsResponse(computations, schedules)
    /\ UNCHANGED <<computations, schedules, timers, uuids, now, submitted, authState, keyState>>

\* mutant: scheduling also starts a first run
ScheduleComputation_RunsNow(body) ==
    /\ ValidateRequest(ScheduleSchemaValid(body))
    /\ Len(schedules) < MaxSchedules
    /\ LET scheduleEntry == [id |-> UuidV4, datasetId |-> body.datasetId[1],
                             schedule |-> body.schedule[1],
                             parameters |-> body.parameters, enabled |-> TRUE,
                             createdAt |-> now, nextRun |-> now + NextRunOffsetMs]
           firstRun == NewComputation(UuidV4, [datasetId |-> body.datasetId,
                                               parameters |-> body.parameters], now) IN
        /\ uuids' = uuids + 1
        /\ schedules' = MapSet(schedules, scheduleEntry.id, scheduleEntry)
        /\ computations' = MapSet(computations, firstRun.id, firstRun)
        /\ res' = ScheduleResponse(scheduleEntry)
    /\ UNCHANGED <<timers, now, submitted, authState, keyState>>

\* POST /schedule, after validateRequest(autonomyValidation.schedule)
ScheduleComputation(body) ==
    /\ ValidateRequest(ScheduleSchemaValid(body))
    /\ Len(schedules) < MaxSchedules
    /\ LET scheduleEntry == [id |-> UuidV4, datasetId |-> body.datasetId[1],
                             schedule |-> body.schedule[1],
                             parameters |-> body.parameters, enabled |-> TRUE,
                             createdAt |-> now, nextRun |-> now + NextRunOffsetMs] IN
        /\ uuids' = uuids + 1
        /\ schedules' = MapSet(schedules, scheduleEntry.id, scheduleEntry)
        /\ res' = ScheduleResponse(scheduleEntry)
    /\ UNCHANGED <<computations, timers, now, submitted, authState, keyState>>

\* the clock advances, up to the horizon of the model
Tick ==
    /\ now < HorizonMs
    /\ now' = now + TickMs
    /\ res' = NoResponse
    /\ UNCHANGED <<computations, schedules, timers, uuids, submitted, authState, keyState>>

Next ==
    \/ \E body \in RecomputeBodies : TriggerRecomputation(body)
    \/ \E timer \in timers, accuracy \in AccuracyPercents : CompletionCallback(timer, accuracy)
    \/ \E id \in RequestIds : GetComputationStatus(id)
    \/ \E id \in RequestIds : GetComputationResults(id)
    \/ \E id \in RequestIds : CancelComputation(id)
    \/ \E body \in ScheduleBodies : ScheduleComputation(body)
    \/ \E query \in HistoryQueries : GetComputationHistory(query)
    \/ GetMetrics
    \/ Tick

Spec == Init /\ [][Next]_vars

\* Node runs a due timer callback, and time passes
FairSpec ==
    /\ Spec
    /\ WF_vars(Tick)
    /\ WF_vars(\E timer \in timers, accuracy \in AccuracyPercents :
                  CompletionCallback(timer, accuracy))

----------------------------------------------------------------------------
(* AuthController and the guarded autonomy routes *)

\* ids a client may name in DELETE /api-key/:keyId
KeyIdInputs == 1..(MaxRegistrations + 2 * MaxApiKeys)

\* the body the guarded recompute route is called with
GuardedRecomputeBodies == {[datasetId |-> Some("d1"), parameters |-> Undefined]}

\* a request that ends in errorHandler or in a rate limiter: only the answer is written
Reject(op, code, headers) ==
    /\ res' = ErrorResponse(op, code, headers)
    /\ UNCHANGED <<computations, schedules, timers, uuids, now, submitted,
                   authState, keyState>>

\* register, up to `await bcrypt.hash`: the existence check
RegisterCheck(body) ==
    /\ IF UsersHas(users, body.email)
       THEN /\ res' = RegisterConflictResponse(body.email)
            /\ UNCHANGED registering
       ELSE /\ Len(registered) + Cardinality(registering) < MaxRegistrations
            /\ body \notin registering
            /\ registering' = registering \cup {body}
            /\ res' = NoResponse
    /\ UNCHANGED <<computations, schedules, timers, uuids, now, submitted,
                   users, apiKeys, refreshTokens, signed, registered, returnedKeys,
                   authUuids, keyState>>

\* register, from the resolution of bcrypt.hash on: store the user, sign the tokens
RegisterStore(body) ==
    /\ body \in registering
    /\ LET user == NewUser(AuthUuidV4(1), body, now) IN
        /\ authUuids' = authUuids + 1
        /\ users' = UsersSet(users, body.email, user)
        /\ signed' = signed \cup {AccessTokenPayload(user)}
        /\ refreshTokens' = refreshTokens \cup {RefreshTokenPayload(user)}
        /\ registered' = Append(registered, [email |-> user.email, id |-> user.id])
        /\ res' = RegisterResponse(user)
    /\ registering' = registering \ {body}
    /\ UNCHANGED <<computations, schedules, timers, uuids, now, submitted,
                   apiKeys, returnedKeys, keyState>>

\* POST /login
Login(body) ==
    LET user == UsersGet(users, body.email)
        answer == LoginResponse(body, user) IN
    /\ res' = answer
    /\ signed' = IF answer.code = 200
                 THEN signed \cup {AccessTokenPayload(user[1])} ELSE signed
    /\ refreshTokens' = IF answer.code = 200
                        THEN refreshTokens \cup {RefreshTokenPayload(user[1])}
                        ELSE refreshTokens
    /\ UNCHANGED <<computations, schedules, timers, uuids, now, submitted,
                   users, apiKeys, registering, registered, returnedKeys, authUuids,
                   keyState>>

\* POST /api-key, behind authenticateJWT
GenerateApiKey(headers, body) ==
    LET req == authenticateJWT(headers) IN
    IF req.code # 200 THEN Reject("apiKey", req.code, headers)
    ELSE
        /\ Cardinality(returnedKeys) < MaxApiKeys
        /\ LET apiKey == NewApiKey(AuthUuidV4(1), JugKey(AuthUuidV4(2)), body,
                                   req.user[1].id, now) IN
            /\ authUuids' = authUuids + 2
            /\ apiKeys' = ApiKeysSet(apiKeys, apiKey)
            /\ returnedKeys' = returnedKeys \cup {apiKey.key}
            /\ res' = ApiKeyResponse(apiKey)
        /\ UNCHANGED <<computations, schedules, timers, uuids, now, submitted,
                       users, refreshTokens, registering, signed, registered, keyState>>

\* DELETE /api-key/:keyId, behind authenticateJWT
RevokeApiKey(headers, keyId) ==
    LET req == authenticateJWT(headers) IN
    IF req.code # 200 THEN Reject("revoke", req.code, headers)
    ELSE
        LET found == {i \in DOMAIN apiKeys :
                         apiKeys[i].id = keyId /\ apiKeys[i].userId = req.user[1].id} IN
        /\ apiKeys' = IF found = {} THEN apiKeys
                      ELSE ApiKeysDelete(apiKeys, apiKeys[CHOOSE i \in found : TRUE].key)
        /\ res' = RevokeResponse(keyId, found # {})
        /\ UNCHANGED <<computations, schedules, timers, uuids, now, submitted,
                       users, refreshTokens, registering, signed, registered,
                       returnedKeys, authUuids, keyState>>

\* POST /recompute: authenticate, requirePermission('compute'),
\* verificationRateLimiter, validateRequest, triggerRecomputation
RecomputeRoute(headers, limited, body) ==
    LET req == requirePermission(authenticate(headers), {"compute"}) IN
    IF req.code # 200 THEN Reject("recompute", req.code, headers)
    ELSE IF limited THEN Reject("recompute", TooManyRequests, headers)
    ELSE TriggerRecomputation(body)

\* POST /cancel/:computationId: authenticate, requirePermission('compute', 'cancel'),
\* cancelComputation
CancelRoute(headers, computationId) ==
    LET req == requirePermission(authenticate(headers), {"compute", "cancel"}) IN
    IF req.code # 200 THEN Reject("cancel", req.code, headers)
    ELSE CancelComputation(computationId)

\* GET /metrics: authenticate, requirePermission('read'), getMetrics
MetricsRoute(headers) ==
    LET req == requirePermission(authenticate(headers), {"read"}) IN
    IF req.code # 200 THEN Reject("metrics", req.code, headers)
    ELSE GetMetrics

AuthNext ==
    \/ \E body \in RegisterBodies : RegisterCheck(body)
    \/ \E body \in registering : RegisterStore(body)
    \/ \E body \in LoginBodies : Login(body)
    \/ \E headers \in HeaderInputs, body \in ApiKeyBodies : GenerateApiKey(headers, body)
    \/ \E headers \in HeaderInputs, keyId \in KeyIdInputs : RevokeApiKey(headers, keyId)
    \/ \E headers \in HeaderInputs, limited \in BOOLEAN, body \in GuardedRecomputeBodies :
          RecomputeRoute(headers, limited, body)
    \/ \E headers \in HeaderInputs, id \in RequestIds : CancelRoute(headers, id)
    \/ \E headers \in HeaderInputs : MetricsRoute(headers)

AuthSpec == Init /\ [][AuthNext]_vars

----------------------------------------------------------------------------
(* PublicKeyController *)

\* generateAndStoreKeyPair(), on the key list `list`
generateAndStoreKeyPair(list, keyId, t) == MapSet(list, keyId, NewKeyPair(keyId, t))

\* POST /rotate
RotateKeys(reason, immediate) ==
    /\ rotations < MaxRotations
    /\ LET currentKey == MapGet(keys, currentKeyId)
           deactivated == IF IsDefined(currentKey)
                          THEN MapSet(keys, currentKeyId,
                                      DeactivatedKey(currentKey[1], reason, now))
                          ELSE keys
           keyId == keyUuids + 1 IN
        /\ keyUuids' = keyUuids + 1
        /\ keys' = generateAndStoreKeyPair(deactivated, keyId, now)
        /\ currentKeyId' = keyId
        /\ res' = RotateResponse(keyId, immediate)
    /\ rotations' = rotations + 1
    /\ UNCHANGED <<computations, schedules, timers, uuids, now, submitted, authState>>

\* GET /public-key
GetPublicKey ==
    /\ res' = PublicKeyResponse(MapGet(keys, currentKeyId)[1])
    /\ UNCHANGED <<computations, schedules, timers, uuids, now, submitted,
                   authState, keyState>>

\* GET /keys
GetAllKeys ==
    /\ res' = AllKeysResponse(keys)
    /\ UNCHANGED <<computations, schedules, timers, uuids, now, submitted,
                   authState, keyState>>

KeyNext ==
    \/ \E reason \in ReasonInputs, immediate \in ImmediateInputs : RotateKeys(reason, immediate)
    \/ GetPublicKey
    \/ GetAllKeys
    \/ Tick

KeySpec == Init /\ [][KeyNext]_vars

----------------------------------------------------------------------------
(* Properties *)

JobIndices == 1..MaxJobs
Stored(i) == i \in DOMAIN computations
TimerPending(id) == \E timer \in timers : timer.id = id
SubmittedIds == {submitted[k][1] : k \in DOMAIN submitted}
IsCancelStep(id) == res'.op = "cancel" /\ res'.id = id
StatusBefore(id, statuses) ==
    /\ IsDefined(MapGet(computations, id))
    /\ MapGet(computations, id)[1].status \in statuses

\* C1: a job cancelled while its completion trigger is still armed keeps the
\* status `cancelled` in every later state, also once the trigger has fired.
C1_CancelledBeforeFireStaysCancelled ==
    [][\A i \in DOMAIN computations :
          (computations[i].status = "cancelled" /\ TimerPending(computations[i].id))
              => computations'[i].status = "cancelled"]_vars

\* C2: every change of a job's status is running -> completed or
\* running -> cancelled; a completed, failed or cancelled job never changes status.
C2_OnlyRunningChangesStatus ==
    [][\A i \in DOMAIN computations :
          computations'[i].status # computations[i].status
              => /\ computations[i].status = "running"
                 /\ computations'[i].status \in {"completed", "cancelled"}]_vars

\* C3: cancel on a job that is already completed, failed or cancelled answers
\* 409 and leaves the job (status, completedAt, cancelledAt) as it was.
C3_CancelTerminalIsRejected ==
    [][\A id \in RequestIds :
          (IsCancelStep(id) /\ StatusBefore(id, TerminalStatuses))
              => /\ res'.code = 409
                 /\ computations' = computations]_vars

C5_SubmitStoresRunningJob ==
    [][res'.op = "recompute"
          => /\ res'.code = 202
             /\ res'.body.computation.status = "running"
             /\ res'.body.computation.id \notin MapKeys(computations)
             /\ Len(computations') = Len(computations) + 1
             /\ \E timer \in timers' : timer.id = res'.body.computation.id
             /\ LET job == MapGet(computations', res'.body.computation.id) IN
                 /\ IsDefined(job)
                 /\ job[1].status = "running"
                 /\ job[1].progress = 0
                 /\ ~IsDefined(job[1].completedAt)
                 /\ ~IsDefined(job[1].cancelledAt)
                 /\ ~IsDefined(job[1].results)]_vars

C5_Witness ==
    /\ res.op = "recompute"
    /\ Len(computations) = MaxJobs
    /\ computations[1].status = "cancelled"
    /\ computations[MaxJobs].status = "running"

\* C6: when a job's completion trigger fires while the job is running, the
\* job becomes completed with progress 100, completedAt set, and a result
\* with convergence true and iterations equal to the submitted
\* parameters.iterations when given and 100 otherwise.
C6_SubmittedIterations(parameters) ==
    IF IsDefined(parameters) /\ IsDefined(parameters[1].iterations)
    THEN parameters[1].iterations[1]
    ELSE 100

C6_FireOnRunningCompletes ==
    [][\A timer \in timers :
          (timer \notin timers' /\ StatusBefore(timer.id, {"running"}))
              => LET before == MapGet(computations, timer.id)[1]
                     after == MapGet(computations', timer.id)[1] IN
                 /\ after.status = "completed"
                 /\ after.progress = 100
                 /\ after.completedAt = Some(now)
                 /\ IsDefined(after.results)
                 /\ after.results[1].convergence = TRUE
                 /\ after.results[1].iterations = C6_SubmittedIterations(before.parameters)]_vars

C6_Witness ==
    \E i, j \in DOMAIN computations :
        /\ res = NoResponse
        /\ computations[i].status = "completed"
        /\ ~IsDefined(computations[i].cancelledAt)
        /\ computations[i].results[1].iterations = 250
        /\ computations[j].status = "completed"
        /\ ~IsDefined(computations[j].cancelledAt)
        /\ computations[j].results[1].iterations = 100

\* C7: if every armed completion trigger eventually fires, every job that is
\* running eventually has a terminal status.
C7_RunningLeadsToTerminal ==
    \A i \in JobIndices :
        (Stored(i) /\ computations[i].status = "running")
            ~> (Stored(i) /\ computations[i].status \in TerminalStatuses)

C7_Witness ==
    /\ Len(computations) = MaxJobs
    /\ timers = {}
    /\ \A i \in DOMAIN computations : computations[i].status \in TerminalStatuses

\* C8: for a stored job whose status is not `completed`, getResult answers 202
\* with the job's current status and progress and no result field.
C8_InProgressAnswer(r, job, status) ==
    /\ r.code = 202
    /\ r.body.status = status
    /\ r.body.progress = job.progress
    /\ DOMAIN r.body = {"success", "message", "status", "progress"}
    /\ r.body.success = FALSE

C8_ResultsOfUnfinishedJob ==
    /\ \A i \in DOMAIN computations :
          (res.op = "results" /\ res.id = computations[i].id
           /\ computations[i].status # "completed")
              => C8_InProgressAnswer(res, computations[i], computations[i].status)
    /\ \A i \in DOMAIN computations : \A status \in Statuses \ {"completed"} :
          C8_InProgressAnswer(
              ResultsResponse(computations[i].id,
                              Some([computations[i] EXCEPT !.status = status])),
              computations[i], status)

C8_Witness ==
    \E i \in DOMAIN computations :
        /\ res.op = "results" /\ res.id = computations[i].id /\ res.code = 202
        /\ computations[i].status = "cancelled"
        /\ IsDefined(computations[i].results)

\* C9: getResult on a completed job answers 200 with the job's stored result
\* and metadata carrying the id assigned and the datasetId supplied at
\* submission and the job's completedAt.
C9_ResultsOfCompletedJob ==
    \A i \in DOMAIN computations :
        (res.op = "results" /\ res.id = computations[i].id
         /\ computations[i].status = "completed")
            => /\ res.code = 200
               /\ res.body.results = computations[i].results
               /\ IsDefined(res.body.results)
               /\ res.body.metadata.computationId = res.id
               /\ \E k \in DOMAIN submitted :
                     submitted[k] = <<res.id, res.body.metadata.datasetId>>
               /\ res.body.metadata.completedAt = computations[i].completedAt
               /\ IsDefined(res.body.metadata.completedAt)

C9_Witness ==
    /\ res.op = "results" /\ res.code = 200
    /\ Len(computations) = MaxJobs
    /\ res.body.metadata.datasetId = "d2"
    /\ \E i \in DOMAIN computations : computations[i].datasetId = "d1"

\* C10: cancel, getStatus and getResult with an id that no submit has
\* returned answer 404 and leave jobs, schedules and armed triggers unchanged.
C10_UnknownIdIsNotFound ==
    [][\A id \in RequestIds :
          (res'.op \in {"cancel", "status", "results"} /\ res'.id = id
           /\ id \notin SubmittedIds)
              => /\ res'.code = 404
                 /\ UNCHANGED <<computations, schedules, timers>>]_vars

C10_Witness ==
    /\ res.op = "cancel" /\ res.code = 404
    /\ res.id \notin SubmittedIds
    /\ computations # <<>>
    /\ schedules # <<>>
    /\ timers # {}

\* C11: a result is attached to a job if and only if its status is
\* `completed`; a running or cancelled job carries no result.
C11_ResultIffCompleted ==
    \A i \in DOMAIN computations :
        IsDefined(computations[i].results) <=> computations[i].status = "completed"

\* C12: at most one of completedAt and cancelledAt is set; a terminal job has
\* exactly one of them and a running job has neither.
C12_OneTerminalTimestamp ==
    \A i \in DOMAIN computations :
        LET job == computations[i] IN
        /\ ~(IsDefined(job.completedAt) /\ IsDefined(job.cancelledAt))
        /\ job.status \in TerminalStatuses
              => (IsDefined(job.completedAt) \/ IsDefined(job.cancelledAt))
        /\ job.status = "running"
              => (~IsDefined(job.completedAt) /\ ~IsDefined(job.cancelledAt))

\* C13: the history answer holds only jobs of the requested status, in
\* insertion order, at most `limit` of them, and pagination.total is the number
\* of stored jobs of that status (of all stored jobs without a filter).
Position(id) == CHOOSE i \in DOMAIN computations : computations[i].id = id
MatchesFilter(job, status) == IsDefined(status) => job.status = status[1]
MatchingCount(status) ==
    Cardinality({i \in DOMAIN computations : MatchesFilter(computations[i], status)})

C13_ListedJobsAreStoredInOrder(jobs, status) ==
    /\ \A k \in DOMAIN jobs :
          /\ jobs[k].id \in MapKeys(computations)
          /\ jobs[k] = computations[Position(jobs[k].id)]
          /\ MatchesFilter(jobs[k], status)
    /\ \A k, l \in DOMAIN jobs : k < l => Position(jobs[k].id) < Position(jobs[l].id)

\* a negative limit admits no job
C13_AtMost(limit) == IF limit < 0 THEN 0 ELSE limit

C13_HistoryFilterLimitTotal ==
    res.op = "history"
        => /\ res.code = 200
           /\ C13_ListedJobsAreStoredInOrder(res.body.computations, res.query.status)
           /\ Len(res.body.computations) <= C13_AtMost(res.body.pagination.limit)
           /\ res.body.pagination.total = MatchingCount(res.query.status)

\* the same for requests whose limit is not negative
HistoryFilterLimitTotal_NonNegativeLimit ==
    (res.op = "history" /\ res.body.pagination.limit >= 0)
        => /\ res.code = 200
           /\ C13_ListedJobsAreStoredInOrder(res.body.computations, res.query.status)
           /\ Len(res.body.computations) <= res.body.pagination.limit
           /\ res.body.pagination.total = MatchingCount(res.query.status)

\* C14: page p with limit L returns the filtered jobs at positions
\* (p-1)*L+1 .. p*L of the filtered list, in insertion order.
C14_FilteredPositions(status) ==
    {i \in DOMAIN computations : MatchesFilter(computations[i], status)}
C14_RankAmongFiltered(i, status) ==
    Cardinality({j \in C14_FilteredPositions(status) : j <= i})

C14_HistoryReturnsRequestedPage ==
    (res.op = "history" /\ res.body.pagination.limit >= 1)
        => LET page == res.body.pagination.page
               limit == res.body.pagination.limit
               wanted == {i \in C14_FilteredPositions(res.query.status) :
                             /\ C14_RankAmongFiltered(i, res.query.status) >= (page - 1) * limit + 1
                             /\ C14_RankAmongFiltered(i, res.query.status) <= page * limit}
           IN {res.body.computations[k].id : k \in DOMAIN res.body.computations}
                  = {computations[i].id : i \in wanted}

\* C15: getStatus, getResult, getComputationHistory and getMetrics change no
\* job, no schedule and no armed trigger, and answer from the state they find.
C15_ReadsArePure ==
    [][res'.op \in {"status", "results", "history", "metrics"}
          => /\ UNCHANGED <<computations, schedules, timers, uuids, now, submitted>>
             /\ (res'.op = "status" /\ res'.code = 200)
                   => res'.body.status = MapGet(computations, res'.id)[1].status
             /\ (res'.op = "metrics")
                   => res'.body.metrics.total = Len(computations)]_vars

C15_Witness ==
    /\ res.op = "status" /\ res.code = 200 /\ res.body.status = "running"
    /\ \E timer \in timers : timer.id = res.id /\ now >= timer.due
    /\ schedules # <<>>

\* C16: progress is always an integer in 0..100 and never decreases.
C16_ProgressBoundedMonotone ==
    [][/\ \A i \in DOMAIN computations' : computations'[i].progress \in 0..100
       /\ \A i \in DOMAIN computations :
             computations'[i].progress >= computations[i].progress]_vars

C16_Witness ==
    \E i \in DOMAIN computations :
        /\ computations[i].progress = 100
        /\ computations[i].status = "cancelled"
        /\ res.op = "cancel"

\* C17: a stored job's id, datasetId, parameters and startedAt never change.
C17_Immutable(job) == <<job.id, job.datasetId, job.parameters, job.startedAt>>

C17_SubmissionFieldsImmutable ==
    [][/\ \A i \in DOMAIN computations :
             C17_Immutable(computations'[i]) = C17_Immutable(computations[i])
       /\ \A i \in DOMAIN computations' :
             \E k \in DOMAIN submitted' :
                 submitted'[k] = <<computations'[i].id, computations'[i].datasetId>>]_vars

C17_Witness ==
    \E i \in DOMAIN computations :
        /\ computations[i].status = "cancelled"
        /\ IsDefined(computations[i].completedAt)
        /\ computations[i].completedAt # Some(computations[i].startedAt)
        /\ IsDefined(computations[i].parameters)
        /\ schedules # <<>>

\* C18: no two jobs share an id, and the number of stored jobs equals the
\* number of accepted submits.
C18_UniqueIdsOnePerSubmit ==
    /\ \A i, j \in DOMAIN computations :
          computations[i].id = computations[j].id => i = j
    /\ Len(computations) = Len(submitted)
    /\ res.op = "recompute" =>
          computations[Len(computations)].id = res.body.computation.id

C18_Witness ==
    /\ Len(computations) = MaxJobs
    /\ Len(submitted) = MaxJobs
    /\ schedules # <<>>
    /\ res.op = "recompute"

\* C19: every stored job's status is running, completed or cancelled, and
\* getMetrics always reports failed = 0.
C19_NeverFailedNorPending ==
    /\ \A i \in DOMAIN computations :
          computations[i].status \in {"running", "completed", "cancelled"}
    /\ Metrics(computations, schedules).failed = 0
    /\ res.op = "metrics" => res.body.metrics.failed = 0

C19_Witness ==
    /\ res.op = "metrics"
    /\ res.body.metrics.completed = 1
    /\ res.body.metrics.cancelled = 1

\* C20: schedule adds exactly one enabled Schedule entry with a nextRun and
\* changes no job and no trigger; every stored job was created by a submit.
C20_ScheduleAddsOnlyASchedule ==
    [][/\ res'.op = "schedule"
          => /\ Len(schedules') = Len(schedules) + 1
             /\ SubSeq(schedules', 1, Len(schedules)) = schedules
             /\ schedules'[Len(schedules')] = res'.body.schedule
             /\ res'.body.schedule.enabled = TRUE
             /\ res'.body.schedule.nextRun = now + NextRunOffsetMs
             /\ res'.body.schedule.id \notin MapKeys(schedules)
             /\ UNCHANGED <<computations, timers>>
       /\ MapKeys(computations') = {submitted'[k][1] : k \in DOMAIN submitted'}]_vars

C20_Witness ==
    /\ res.op = "schedule" /\ res.code = 201
    /\ computations # <<>>
    /\ timers # {}

\* C21: each accepted submit arms exactly one completion trigger, bound to
\* the job it created; a trigger fires at most once, and no trigger is armed
\* or fires for an id that no submit returned.
C21_TimersOf(ts, id) == {timer \in ts : timer.id = id}

C21_OneSingleFireTriggerPerSubmit ==
    [][/\ res'.op = "recompute"
          => \E timer \in timers' :
                /\ timer \notin timers
                /\ timers' = timers \cup {timer}
                /\ timer.id = res'.body.computation.id
                /\ timer.id \notin MapKeys(computations)
                /\ C21_TimersOf(timers, timer.id) = {}
       /\ res'.op # "recompute" => timers' \subseteq timers
       /\ (res'.op # "recompute" /\ timers' # timers)
          => \E timer \in timers :
                /\ timers' = timers \ {timer}
                /\ timer.id \in SubmittedIds
                /\ C21_TimersOf(timers', timer.id) = {}
       /\ \A timer \in timers' :
             /\ timer.id \in {submitted'[k][1] : k \in DOMAIN submitted'}
             /\ Cardinality(C21_TimersOf(timers', timer.id)) = 1
             /\ ~IsDefined(MapGet(computations', timer.id)[1].completedAt)]_vars

C21_Witness ==
    /\ Len(submitted) = MaxJobs
    /\ Cardinality(timers) = 1
    /\ \E i \in DOMAIN computations :
          /\ IsDefined(computations[i].completedAt)
          /\ ~TimerPending(computations[i].id)
    /\ \E i \in DOMAIN computations :
          /\ ~IsDefined(computations[i].completedAt)
          /\ TimerPending(computations[i].id)

\* C26: job records are never removed: the set of known job ids only grows,
\* every id a submit returned stays stored, and getStatus on it answers 200.
C26_JobsAreNeverRemoved ==
    [][/\ MapKeys(computations) \subseteq MapKeys(computations')
       /\ {submitted'[k][1] : k \in DOMAIN submitted'} \subseteq MapKeys(computations')
       /\ (res'.op = "status" /\ res'.id \in SubmittedIds) => res'.code = 200]_vars

C26_Witness ==
    /\ res.op = "status" /\ res.code = 200
    /\ res.id \in SubmittedIds
    /\ res.body.status = "cancelled"
    /\ IsDefined(res.body.completedAt)
    /\ timers = {}

\* C27: getMetrics reports total = running + completed + failed + cancelled,
\* total = number of stored jobs, activeSchedules = number of schedule calls
\* made so far (every uuid drawn is a submit's or a schedule call's).
C27_ScheduleCalls == uuids - Len(submitted)

C27_MetricsAddUp ==
    LET metrics == Metrics(computations, schedules) IN
    /\ metrics.total = metrics.running + metrics.completed + metrics.failed + metrics.cancelled
    /\ metrics.total = Len(computations)
    /\ metrics.activeSchedules = C27_ScheduleCalls
    /\ res.op = "metrics" => res.body.metrics = metrics

C27_Witness ==
    /\ res.op = "metrics"
    /\ res.body.metrics.total = MaxJobs
    /\ res.body.metrics.running = 1
    /\ res.body.metrics.activeSchedules = MaxSchedules

\* C28: cancel(j) and the firing of j's completion trigger change only
\* job j: every other job and every schedule is the same after the step.
C28_OthersUnchanged(id) ==
    /\ Len(computations') = Len(computations)
    /\ \A i \in DOMAIN computations :
          computations[i].id # id => computations'[i] = computations[i]
    /\ schedules' = schedules

C28_CancelAndFireTouchOneJob ==
    [][/\ res'.op = "cancel" => C28_OthersUnchanged(res'.id)
       /\ \A timer \in timers :
             timer \notin timers' => C28_OthersUnchanged(timer.id)]_vars

C28_Witness ==
    /\ Len(computations) = MaxJobs
    /\ schedules # <<>>
    /\ res.op = "cancel" /\ res.code = 200
    /\ \E i \in DOMAIN computations :
          /\ computations[i].id # res.id
          /\ computations[i].status = "completed"

\* C29: progress is 0 or 100; progress = 100 exactly when completedAt is set
\* and exactly when a result is attached; a running job has progress 0 and a
\* completed job has progress 100.
C29_ProgressTracksCompletion ==
    \A i \in DOMAIN computations :
        LET job == computations[i] IN
        /\ job.progress \in {0, CompletedProgress}
        /\ (job.progress = CompletedProgress) <=> IsDefined(job.completedAt)
        /\ (job.progress = CompletedProgress) <=> IsDefined(job.results)
        /\ job.status = "running" => job.progress = 0
        /\ job.status = "completed" => job.progress = CompletedProgress

C29_Witness ==
    /\ \E i \in DOMAIN computations :
          /\ computations[i].status = "cancelled"
          /\ computations[i].progress = CompletedProgress
    /\ \E i \in DOMAIN computations :
          /\ computations[i].status = "completed"
          /\ IsDefined(computations[i].cancelledAt)

\* C22: for any email at most one register request ever succeeds: of two
\* requests in flight for one email the second to resume answers 409, and a
\* stored user is never replaced by a second registration.
C22_AtMostOneRegistrationPerEmail ==
    [][/\ \A i, j \in DOMAIN registered' :
             registered'[i].email = registered'[j].email => i = j
       /\ \A i \in DOMAIN users : users'[i] = users[i]
       /\ \A body \in registering :
             (body \notin registering' /\ UsersHas(users, body.email))
                => res'.code = Conflict]_vars

\* C23: a job is created only by an authenticated request holding '*' or
\* 'compute', and cancelled only by one holding '*', 'compute' or 'cancel';
\* an unauthenticated request gets 401, an authenticated one without the
\* permission 403, both leaving the job store unchanged; a registered user
\* and the system API key never create or cancel a job.
C23_Holds(headers, permissions) ==
    /\ authenticate(headers).code = 200
    /\ AllPermissions(authenticate(headers)) \cap (permissions \cup {"*"}) # {}

\* a step that answered from errorHandler or the rate limiter to `headers`
C23_RejectedRightly(headers, permissions) ==
    /\ computations' = computations
    /\ authenticate(headers).code # 200 => res'.code = Unauthorized
    /\ (authenticate(headers).code = 200 /\ ~C23_Holds(headers, permissions))
          => res'.code = Forbidden
    /\ C23_Holds(headers, permissions) => res'.code = TooManyRequests

C23_RejectCodes == {Unauthorized, Forbidden, TooManyRequests}

C23_UserAndSystemHeaders ==
    {XApiKey(SystemKey)} \cup {Bearer(AccessTokenPayload(users[i])) : i \in DOMAIN users}

C24_Stored(key) == {i \in DOMAIN apiKeys : apiKeys[i].key = key}

C25_OneActiveKey ==
    /\ Cardinality({i \in DOMAIN keys : keys[i].active}) = 1
    /\ \A i \in DOMAIN keys : keys[i].active <=> keys[i].id = currentKeyId
    /\ Len(keys) = 1 + rotations

C25_RotationStep ==
    rotations' # rotations
       => /\ Len(keys') = Len(keys) + 1
          /\ \A i \in DOMAIN keys :
                /\ keys'[i].id = keys[i].id
                /\ ~keys'[i].active
                /\ keys[i].id # currentKeyId => keys'[i] = keys[i]
          /\ keys'[Len(keys')].id = currentKeyId'
          /\ currentKeyId' \notin MapKeys(keys)

C25_ExactlyOneActiveKey == []C25_OneActiveKey /\ [][C25_RotationStep]_vars

C25_Witness ==
    /\ rotations = MaxRotations
    /\ res.op = "rotate"
    /\ keys[1].deactivationReason = Some("compromised")
    /\ now > 0

====
